---- MODULE Spec2Model ----
(***************************************************************************)
(* Audio timeline reconciliation of AutoDub: the three aligners            *)
(*   - ImprovedAligner            (autodub/pipeline/align_improved.py)     *)
(*   - align_segments_simple      (autodub/pipeline/align_simple.py)       *)
(*   - align_segments             (autodub/pipeline/align.py)              *)
(* and the tempo filter chains they hand to ffmpeg's atempo; the loop of   *)
(* ImprovedAligner.adjust_audio_speed step by step; and the jobs of the    *)
(* web server (web_server.py, autodub/web_pipeline.py) that run the        *)
(* pipeline in concurrent background threads over one TEMP_DIR.            *)
(*                                                                         *)
(* Times are whole milliseconds (the code's int(seconds * 1000)).  Tempo   *)
(* factors and duration ratios are Python floats in the code; here they    *)
(* are exact rationals <<num, den>> with den > 0, compared by cross        *)
(* multiplication.  An AudioSegment is a sequence with one element per     *)
(* millisecond; the element is the set of segments whose clip sounds in    *)
(* that millisecond ({} is silence), so len(), +, slicing and overlay of   *)
(* pydub are Len, \o, SubSeq and a pointwise union.                        *)
(***************************************************************************)
EXTENDS Integers, Sequences, FiniteSets, TLC

(***************************************************************************)
(* Bounds of the model.                                                    *)
(***************************************************************************)
MaxSegs == 2
MaxTime == 3
MaxClip == 3
MaxOverlayClip == 3
ChainDen == 200
MaxChainNum == 900
MaxPolicyWindow == 20
MaxPolicyClip == 30
ScenarioStep == 250
MaxScenarioGap == 4
MaxLoopIterations == 8
MaxJobs == 2

(***************************************************************************)
(* Program constants.                                                      *)
(***************************************************************************)
NoAudio == -1
(* float('inf'): above every time of the model *)
Infinity == 1000000
(* a clip whose file exists but which AudioSegment.from_file cannot decode *)
Unreadable == -3

(* MAX_SPEED_FACTOR = 1.4, MIN_SPEED_FACTOR = 0.7 *)
MAX_SPEED_FACTOR == <<14, 10>>
MIN_SPEED_FACTOR == <<7, 10>>
(* PERFECT_THRESHOLD = 0.05, GENTLE_THRESHOLD = 0.15, MODERATE_THRESHOLD = 0.30 *)
PERFECT_THRESHOLD == <<5, 100>>
GENTLE_THRESHOLD == <<15, 100>>
MODERATE_THRESHOLD == <<30, 100>>
(* the single-stage range of ffmpeg's atempo: 0.5 .. 2.0 *)
ATEMPO_MIN == <<1, 2>>
ATEMPO_MAX == <<2, 1>>
(* the "negligible" epsilon 0.01 of adjust_audio_speed *)
EPSILON == <<1, 100>>

(***************************************************************************)
(* Exact rational arithmetic on <<num, den>>, den > 0.                     *)
(***************************************************************************)
Abs(x) == IF x < 0 THEN -x ELSE x
Min(a, b) == IF a <= b THEN a ELSE b
Max(a, b) == IF a >= b THEN a ELSE b

RLe(x, y) == x[1] * y[2] <= y[1] * x[2]
RLt(x, y) == x[1] * y[2] < y[1] * x[2]
REq(x, y) == x[1] * y[2] = y[1] * x[2]
RMul(x, y) == <<x[1] * y[1], x[2] * y[2]>>
RDiv(x, y) == <<x[1] * y[2], x[2] * y[1]>>
RMax(x, y) == IF RLt(x, y) THEN y ELSE x
RMin(x, y) == IF RLt(y, x) THEN y ELSE x
(* abs(x - 1.0) *)
RDev(x) == <<Abs(x[1] - x[2]), x[2]>>
One == <<1, 1>>

FloorDiv(a, b) == a \div b
CeilDiv(a, b) == (a + b - 1) \div b

(***************************************************************************)
(* AudioSegment (pydub).                                                   *)
(***************************************************************************)
(* AudioSegment.silent(duration=n) *)
Silent(n) == [k \in 1..n |-> {}]
(* a clip of n ms belonging to segment s *)
Clip(s, n) == [k \in 1..n |-> {s}]
(* seg[n:] for n >= 0: the start is clamped to len(seg) *)
SliceFrom(seg, n) == SubSeq(seg, Min(n, Len(seg)) + 1, Len(seg))
(* seg[:-n]: a negative stop counts from the end, but -0 is 0, so seg[:-0]
   is seg[:0], the empty segment *)
SliceDropLast(seg, n) == IF n = 0 THEN << >> ELSE SubSeq(seg, 1, Len(seg) - n)
(* an overlay that grows the base when seg runs past its end *)
Overlay_Extending(base, seg, p) ==
    [k \in 1..Max(Len(base), p + Len(seg)) |->
        LET b == IF k <= Len(base) THEN base[k] ELSE {}
        IN  IF k > p /\ k - p <= Len(seg) THEN b \cup seg[k - p] ELSE b]
(* base.overlay(seg, position=p): the result has the length of base; the
   part of seg that would run past the end of base is dropped *)
Overlay(base, seg, p) ==
    [k \in 1..Len(base) |->
        IF k > p /\ k - p <= Len(seg) THEN base[k] \cup seg[k - p] ELSE base[k]]
(* how much of seg the overlay at p puts into base *)
OverlaidLen(base, seg, p) == Min(Len(seg), Max(0, Len(base) - p))

(* the number of silent milliseconds at the tail of a track *)
TrailingSilence(seg) ==
    CHOOSE n \in 0..Len(seg) :
        /\ n = Len(seg) \/ seg[Len(seg) - n] # {}
        /\ \A k \in (Len(seg) - n + 1)..Len(seg) : seg[k] = {}

(***************************************************************************)
(* abs(1.0 - duration_ratio) > threshold as Python evaluates it in IEEE-754*)
(* doubles.  duration_ratio is the double nearest to current / target, the *)
(* subtraction from 1.0 is exact for a ratio within [0.5, 2], and the      *)
(* threshold is the double nearest to its literal.  The outcome differs    *)
(* from the exact comparison only where the exact deviation equals the     *)
(* threshold; there the two roundings decide:                              *)
(*    abs(1.0 - 0.95) = abs(1.0 - 1.05) = 0.050000000000000044  >  0.05    *)
(*    abs(1.0 - 0.85) = 0.15000000000000002                     >  0.15    *)
(*    abs(1.0 - 1.15) = 0.1499999999999999                      <= 0.15    *)
(*    abs(1.0 - 0.70) = abs(1.0 - 1.30) = 0.30000000000000004   >  0.30    *)
(***************************************************************************)
RoundsAbove == {<<19, 20>>, <<21, 20>>, <<17, 20>>, <<7, 10>>, <<13, 10>>}
DeviationAbove(duration_ratio, threshold) ==
    \/ RLt(threshold, RDev(duration_ratio))
    \/ /\ REq(RDev(duration_ratio), threshold)
       /\ \E r \in RoundsAbove : REq(duration_ratio, r)

(***************************************************************************)
(* TempoCorrectionPolicy: ImprovedAligner.calculate_gentle_speed.          *)
(* duration_ratio is <<current_duration_ms, target_duration_ms>>.          *)
(***************************************************************************)
(* the bounds before the gentler ones ("was 2.0x", "was 0.5x") *)
ClampSpeed_OldBounds(x) == RMax(ATEMPO_MIN, RMin(ATEMPO_MAX, x))
ClampSpeed(x) == RMax(MIN_SPEED_FACTOR, RMin(MAX_SPEED_FACTOR, x))

calculate_gentle_speed(duration_ratio) ==
    LET adjust_factor == <<duration_ratio[2], duration_ratio[1]>>
        (* 1.0 + (adjust_factor - 1.0) * 0.5 *)
        half == <<adjust_factor[2] * 2 + (adjust_factor[1] - adjust_factor[2]),
                  adjust_factor[2] * 2>>
        (* 1.0 + (adjust_factor - 1.0) * 0.7 *)
        seventy == <<adjust_factor[2] * 10 + (adjust_factor[1] - adjust_factor[2]) * 7,
                     adjust_factor[2] * 10>>
    IN  IF ~DeviationAbove(duration_ratio, PERFECT_THRESHOLD) THEN One
        ELSE IF ~DeviationAbove(duration_ratio, GENTLE_THRESHOLD) THEN ClampSpeed(half)
        ELSE IF ~DeviationAbove(duration_ratio, MODERATE_THRESHOLD)
        THEN ClampSpeed(seventy)
        ELSE ClampSpeed(adjust_factor)

(***************************************************************************)
(* TempoFilterChain: the atempo stages each aligner builds for a factor.   *)
(***************************************************************************)
(* the while loop of ImprovedAligner.adjust_audio_speed; the result is
   <<remaining_factor, filters>> at loop exit *)
RECURSIVE ChainLoop(_, _)
ChainLoop(remaining_factor, filters) ==
    IF RLt(remaining_factor, ATEMPO_MIN)
    THEN ChainLoop(RDiv(remaining_factor, ATEMPO_MIN), Append(filters, ATEMPO_MIN))
    ELSE IF RLt(ATEMPO_MAX, remaining_factor)
    THEN ChainLoop(RDiv(remaining_factor, ATEMPO_MAX), Append(filters, ATEMPO_MAX))
    ELSE <<remaining_factor, filters>>

(* the residual stage dropped up to 0.1 instead of 0.01 *)
ImprovedChain_WideEpsilon(speed_factor) ==
    IF RLt(RDev(speed_factor), EPSILON) THEN << >>
    ELSE LET r == ChainLoop(speed_factor, << >>)
         IN  IF RLt(<<1, 10>>, RDev(r[1])) THEN Append(r[2], r[1]) ELSE r[2]

(* ImprovedAligner.adjust_audio_speed: the filters handed to ffmpeg; << >>
   when the function returns the input unchanged without calling ffmpeg *)
ImprovedChain(speed_factor) ==
    IF RLt(RDev(speed_factor), EPSILON) THEN << >>
    ELSE LET r == ChainLoop(speed_factor, << >>)
         IN  IF RLt(EPSILON, RDev(r[1])) THEN Append(r[2], r[1]) ELSE r[2]

(* max(0.5, min(2.0, f)) *)
ClampAtempo(f) == RMax(ATEMPO_MIN, RMin(ATEMPO_MAX, f))

(* the reciprocal handed to atempo, as the append aligners do *)
SimpleChain_Reciprocal(atempo_factor) ==
    << ClampAtempo(<<atempo_factor[2], atempo_factor[1]>>) >>

(* align_simple.adjust_audio_simple *)
SimpleChain(atempo_factor) ==
    LET f == ClampAtempo(atempo_factor)
    IN  IF RLt(f, ATEMPO_MIN) THEN << <<1, 2>>, <<8, 10>> >>
        ELSE IF RLt(ATEMPO_MAX, f) THEN << <<2, 1>>, <<15, 10>> >>
        ELSE << f >>

(* the factor passed on without the clamp of lines 15-18 *)
LegacyChain_NoClamp(speed_factor) == << speed_factor >>

(* align.adjust_audio_speed *)
LegacyChain(speed_factor) ==
    LET f == IF RLt(speed_factor, ATEMPO_MIN) THEN ATEMPO_MIN
             ELSE IF RLt(ATEMPO_MAX, speed_factor) THEN ATEMPO_MAX
             ELSE speed_factor
    IN  << f >>

RECURSIVE StageProduct(_)
StageProduct(stages) ==
    IF stages = << >> THEN One
    ELSE RMul(stages[1], StageProduct(Tail(stages)))

(***************************************************************************)
(* The external tempo primitive (ffmpeg atempo): a clip of n ms run through*)
(* the stages comes back with about n / product ms.  The rounding of the   *)
(* result is ffmpeg's, so both neighbouring whole lengths are outcomes.    *)
(***************************************************************************)
TempoOutcomes == {"floor", "ceil", "fail"}
(* a primitive that returns duration * factor *)
TempoLen_Multiplied(n, stages, outcome) ==
    LET p == StageProduct(stages)
    IN  IF outcome = "floor" THEN FloorDiv(n * p[1], p[2]) ELSE CeilDiv(n * p[1], p[2])
TempoLen(n, stages, outcome) ==
    LET p == StageProduct(stages)
    IN  IF outcome = "floor" THEN FloorDiv(n * p[2], p[1]) ELSE CeilDiv(n * p[2], p[1])

(***************************************************************************)
(* Input: the segment list handed over by synthesis.  start and end are    *)
(* already in ms, start <= end (a window shorter than 1 ms truncates to    *)
(* 0 ms); audio is the length of the synthesized clip, NoAudio when        *)
(* synthesis left no file, or Unreadable when the file cannot be decoded.  *)
(* The list may be empty.  Lists are sorted ascending by start             *)
(* (transcribe.deduplicate_segments sorts them); windows of different      *)
(* speakers may overlap.  Clips are up to maxClip ms long: the overlay     *)
(* aligner truncates only a clip of more than twice its window, so its     *)
(* clips range further (MaxOverlayClip) than those of the append aligners  *)
(* (MaxClip).                                                              *)
(***************************************************************************)
Segment(maxClip) ==
    {[start |-> s, end |-> e, audio |-> a] :
        s \in 0..(MaxTime - 1), e \in 1..MaxTime,
        a \in {NoAudio, Unreadable} \cup 1..maxClip}

IsSorted(segs) ==
    \A k \in 1..(Len(segs) - 1) : segs[k].start <= segs[k + 1].start

SegmentLists(maxClip) ==
    UNION {{segs \in [1..n -> {sg \in Segment(maxClip) : sg.start <= sg.end}] :
               IsSorted(segs)} : n \in 0..MaxSegs}

(* one segment at a finer scale: windows and clips of up to MaxPolicyWindow
   and MaxPolicyClip ms, so that every tolerance band of the policy and its
   thresholds (a 21 ms clip for a 20 ms window) occur *)
PolicyLists ==
    {<< [start |-> 0, end |-> t, audio |-> c] >> :
        t \in 1..MaxPolicyWindow, c \in 1..MaxPolicyClip}

(* the duration ratios current / target of these segments *)
PolicyRatios == {<<c, t>> : c \in 1..MaxPolicyClip, t \in 1..MaxPolicyWindow}

(* segment.get('audio_path') and segment['audio_path'].exists() *)
HasAudio(segment) == segment.audio # NoAudio
(* AudioSegment.from_file(segment['audio_path']) returns instead of raising *)
Readable(segment) == segment.audio >= 0

(* the factors the chain specification decomposes: k / ChainDen *)
ChainFactors == {<<k, ChainDen>> : k \in 1..MaxChainNum}

VARIABLES
    aligner,            \* which entry point runs: "improved", "simple", "legacy",
                        \* "chain", "policy", "loop" or "web"
    segments,           \* the input list
    pc,                 \* position in the entry point
    timing_analysis,    \* ImprovedAligner: the list analyze_timing returns
    pos,                \* index of the next list entry the loop handles
    combined,           \* the master track
    last_position_ms,   \* the write cursor (last_end_time in align.py)
    placed,             \* one record per clip put into the track, in order
    calls,              \* one record per call of the tempo primitive, in order
    placed_count,       \* align_segments_simple
    adjusted_count,     \* align_segments_simple
    exported,           \* dubbed_audio.wav: whether it was written, and the track in it
    target_factor,      \* chain: the factor to decompose
    chain,              \* chain: the stages built by each aligner's function
    temp_files,         \* the adjusted_NNNN files in TEMP_DIR, by their number + 1
    policy_ratio,       \* policy: the duration_ratio handed to calculate_gentle_speed
    policy_speed,       \* policy: what calculate_gentle_speed returned
    loop_remaining,     \* loop: remaining_factor of adjust_audio_speed's while loop
    loop_filters,       \* loop: the filters list of adjust_audio_speed
    jobs,               \* web: the jobs dictionary of web_server.py
    tasks,              \* web: where each job's background task stands
    temp_dir            \* web: the files of TEMP_DIR and OUTPUT_DIR, by name

vars == <<aligner, segments, pc, timing_analysis, pos, combined, last_position_ms,
          placed, calls, placed_count, adjusted_count, exported, target_factor, chain,
          temp_files, policy_ratio, policy_speed, loop_remaining, loop_filters,
          jobs, tasks, temp_dir>>

NotExported == [written |-> FALSE, track |-> << >>]
NoChain == [improved |-> << >>, simple |-> << >>, legacy |-> << >>]
NoSpeed == <<0, 1>>

(***************************************************************************)
(* ImprovedAligner.analyze_timing                                          *)
(***************************************************************************)
(* the first entry given no gap before it instead of the lead-in *)
TimingRecord_NoLeadIn(segs, i) ==
    LET start_ms == segs[i].start
        end_ms == segs[i].end
        target_duration_ms == end_ms - start_ms
        current_duration_ms == segs[i].audio
        next_start == IF i < Len(segs) THEN segs[i + 1].start ELSE Infinity
        duration_ratio == <<current_duration_ms, target_duration_ms>>
    IN  [index |-> i,
         start_ms |-> start_ms,
         end_ms |-> end_ms,
         target_duration_ms |-> target_duration_ms,
         current_duration_ms |-> current_duration_ms,
         duration_ratio |-> duration_ratio,
         silence_before |-> IF i > 1 THEN start_ms - segs[i - 1].end ELSE 0,
         silence_after |-> IF next_start = Infinity THEN Infinity ELSE next_start - end_ms,
         adjustment_needed |-> DeviationAbove(duration_ratio, PERFECT_THRESHOLD)]

TimingRecord(segs, i) ==
    LET start_ms == segs[i].start
        end_ms == segs[i].end
        target_duration_ms == end_ms - start_ms
        current_duration_ms == segs[i].audio
        prev_end == IF i > 1 THEN segs[i - 1].end ELSE 0
        next_start == IF i < Len(segs) THEN segs[i + 1].start ELSE Infinity
        duration_ratio == <<current_duration_ms, target_duration_ms>>
    IN  [index |-> i,
         start_ms |-> start_ms,
         end_ms |-> end_ms,
         target_duration_ms |-> target_duration_ms,
         current_duration_ms |-> current_duration_ms,
         duration_ratio |-> duration_ratio,
         silence_before |-> start_ms - prev_end,
         silence_after |-> IF next_start = Infinity THEN Infinity ELSE next_start - end_ms,
         adjustment_needed |-> DeviationAbove(duration_ratio, PERFECT_THRESHOLD)]

RECURSIVE AnalyzeFrom(_, _)
AnalyzeFrom(segs, i) ==
    IF i > Len(segs) THEN << >>
    ELSE IF HasAudio(segs[i]) THEN <<TimingRecord(segs, i)>> \o AnalyzeFrom(segs, i + 1)
    ELSE AnalyzeFrom(segs, i + 1)

analyze_timing(segs) == AnalyzeFrom(segs, 1)

(* analyze_timing has no handler around AudioSegment.from_file (line 34) nor
   around current_duration_ms / target_duration_ms (line 42): an undecodable
   clip or a 0 ms window of any segment with audio raises out of it *)
AnalyzeRaises(segs) ==
    \E i \in 1..Len(segs) :
        HasAudio(segs[i]) /\ (~Readable(segs[i]) \/ segs[i].end - segs[i].start = 0)

(***************************************************************************)
(* GapBorrower (lines 177-187 of align_improved.py).  can_borrow_before    *)
(* and can_borrow_after are halves of whole numbers, so the model carries  *)
(* twice their value.                                                      *)
(***************************************************************************)
(* 2 * min(overhang / 2, silence_before * 0.5) *)
CanBorrowBefore2(overhang, info) == Min(overhang, info.silence_before)
(* 2 * min(overhang / 2, silence_after * 0.5); min(x, inf) is x *)
CanBorrowAfter2(overhang, info) ==
    IF info.silence_after = Infinity THEN overhang ELSE Min(overhang, info.silence_after)
(* a borrow accepted only when it covers the whole overhang *)
BorrowAccepted_Whole(overhang, info) ==
    CanBorrowBefore2(overhang, info) + CanBorrowAfter2(overhang, info) >= 2 * overhang
(* can_borrow_before + can_borrow_after >= overhang * 0.8 *)
BorrowAccepted(overhang, info) ==
    5 * (CanBorrowBefore2(overhang, info) + CanBorrowAfter2(overhang, info)) >= 8 * overhang
(* if can_borrow_before > 0 and len(combined) > can_borrow_before:
       combined = combined[:-int(can_borrow_before)] *)
BorrowTrims(track, overhang, info) ==
    LET cbb2 == CanBorrowBefore2(overhang, info)
    IN  cbb2 > 0 /\ 2 * Len(track) > cbb2
BorrowTrim(track, overhang, info) ==
    IF BorrowTrims(track, overhang, info)
    THEN SliceDropLast(track, CanBorrowBefore2(overhang, info) \div 2)
    ELSE track

(***************************************************************************)
(* One iteration of the loop of ImprovedAligner.apply_smart_alignment for  *)
(* the entry info, with the tempo primitive's outcome given.               *)
(***************************************************************************)
SmartAlignmentStep(track, cursor, info, outcome) ==
    LET c == info.current_duration_ms
        t == info.target_duration_ms
        silence_duration ==
            IF info.start_ms > cursor THEN info.start_ms - cursor ELSE 0
        withSilence == track \o Silent(silence_duration)
        speed_factor == calculate_gentle_speed(info.duration_ratio)
        adjust == info.adjustment_needed /\ ~REq(speed_factor, One)
        stages == IF adjust THEN ImprovedChain(speed_factor) ELSE << >>
        invoked == stages # << >>
        new_duration ==
            IF invoked /\ outcome # "fail" THEN TempoLen(c, stages, outcome) ELSE c
        overhang == new_duration - t
        borrow == adjust /\ overhang > 0 /\ BorrowAccepted(overhang, info)
        truncate == adjust /\ overhang > 0 /\ ~BorrowAccepted(overhang, info)
        before == IF borrow THEN BorrowTrim(withSilence, overhang, info) ELSE withSilence
        emitted == IF truncate THEN Min(new_duration, t) ELSE new_duration
    IN  [combined |-> before \o Clip(info.index, emitted),
         last_position_ms |-> info.start_ms + new_duration,
         call |-> IF invoked
                  THEN << [seg |-> info.index, by |-> "improved", factor |-> speed_factor,
                           stages |-> stages, ok |-> outcome # "fail"] >>
                  ELSE << >>,
         place |-> [seg |-> info.index,
                    start_ms |-> info.start_ms,
                    target_duration_ms |-> t,
                    offset |-> Len(before),
                    silence |-> silence_duration,
                    clip |-> new_duration,
                    body |-> emitted,
                    padding |-> 0,
                    emitted |-> emitted,
                    avail |-> TrailingSilence(withSilence),
                    removed |-> Len(withSilence) - Len(before),
                    can_borrow_before2 |->
                        IF borrow THEN CanBorrowBefore2(overhang, info) ELSE 0,
                    can_borrow_after2 |->
                        IF borrow THEN CanBorrowAfter2(overhang, info) ELSE 0,
                    borrow_before |->
                        IF borrow /\ BorrowTrims(withSilence, overhang, info)
                        THEN CanBorrowBefore2(overhang, info) \div 2 ELSE 0,
                    how |-> IF ~adjust THEN "asis"
                            ELSE IF borrow THEN "borrowed"
                            ELSE IF truncate THEN "truncated"
                            ELSE "adjusted",
                    failed |-> invoked /\ outcome = "fail"],
         (* ffmpeg wrote adjusted_path; nothing in the class removes it *)
         wrote |-> invoked /\ outcome # "fail"]

(***************************************************************************)
(* ImprovedAligner.align_segments                                          *)
(***************************************************************************)
ImprovedAnalyze ==
    /\ aligner = "improved" /\ pc = "start"
    /\ ~AnalyzeRaises(segments)
    /\ timing_analysis' = analyze_timing(segments)
    /\ pc' = "align"
    /\ UNCHANGED <<loop_remaining, loop_filters, jobs, tasks, temp_dir,
                   temp_files, policy_ratio, policy_speed, aligner, segments,
                   pos, combined, last_position_ms, placed, calls, placed_count,
                   adjusted_count, exported, target_factor, chain>>

ImprovedPlace ==
    /\ aligner = "improved" /\ pc = "align" /\ pos <= Len(timing_analysis)
    /\ \E outcome \in TempoOutcomes :
          LET r == SmartAlignmentStep(combined, last_position_ms,
                                      timing_analysis[pos], outcome)
          IN  /\ combined' = r.combined
              /\ last_position_ms' = r.last_position_ms
              /\ placed' = Append(placed, r.place)
              /\ calls' = calls \o r.call
              /\ temp_files' = IF r.wrote THEN temp_files \cup {pos} ELSE temp_files
    /\ pos' = pos + 1
    /\ UNCHANGED <<loop_remaining, loop_filters, jobs, tasks, temp_dir,
                   policy_ratio, policy_speed, aligner, segments, pc,
                   timing_analysis, placed_count, adjusted_count, exported,
                   target_factor, chain>>

(* the exception of analyze_timing leaves align_segments: nothing is placed
   and nothing is exported *)
ImprovedRaise ==
    /\ aligner = "improved" /\ pc = "start"
    /\ AnalyzeRaises(segments)
    /\ pc' = "raised"
    /\ UNCHANGED <<loop_remaining, loop_filters, jobs, tasks, temp_dir,
                   temp_files, policy_ratio, policy_speed, aligner, segments,
                   timing_analysis, pos, combined, last_position_ms, placed, calls,
                   placed_count, adjusted_count, exported, target_factor, chain>>

ImprovedExport ==
    /\ aligner = "improved" /\ pc = "align" /\ pos > Len(timing_analysis)
    /\ exported' = [written |-> TRUE, track |-> combined]
    /\ pc' = "done"
    /\ UNCHANGED <<loop_remaining, loop_filters, jobs, tasks, temp_dir,
                   temp_files, policy_ratio, policy_speed, aligner, segments,
                   timing_analysis, pos, combined, last_position_ms, placed, calls,
                   placed_count, adjusted_count, target_factor, chain>>

(***************************************************************************)
(* align.align_segments (append mode without borrowing): one iteration of  *)
(* the loop for a segment that has audio.                                  *)
(***************************************************************************)
LegacyStep(track, cursor, segs, i, outcome) ==
    LET start_ms == segs[i].start
        end_ms == segs[i].end
        target_duration_ms == end_ms - start_ms
        current_duration_ms == segs[i].audio
        silence_duration == IF start_ms > cursor THEN start_ms - cursor ELSE 0
        withSilence == track \o Silent(silence_duration)
        speed_factor == <<current_duration_ms, target_duration_ms>>
        asis == RLe(<<8, 10>>, speed_factor) /\ RLe(speed_factor, <<12, 10>>)
        adjust_speed_factor == <<target_duration_ms, current_duration_ms>>
        inRange == RLe(ATEMPO_MIN, adjust_speed_factor)
                   /\ RLe(adjust_speed_factor, ATEMPO_MAX)
        invoked == ~asis /\ inRange
        stages == LegacyChain(adjust_speed_factor)
        how == IF asis THEN "asis"
               ELSE IF invoked /\ outcome # "fail" THEN "adjusted"
               ELSE IF current_duration_ms > target_duration_ms THEN "truncated"
               ELSE IF invoked THEN "original"
               ELSE "padded"
        clip == IF how = "adjusted" THEN TempoLen(current_duration_ms, stages, outcome)
                ELSE current_duration_ms
        body == IF how = "truncated" THEN target_duration_ms ELSE clip
        padding == IF how = "padded" /\ target_duration_ms - current_duration_ms > 0
                   THEN target_duration_ms - current_duration_ms ELSE 0
        result == withSilence \o Clip(i, body) \o Silent(padding)
    IN  [combined |-> result,
         last_position_ms |-> start_ms + Len(SliceFrom(result, start_ms)),
         call |-> IF invoked
                  THEN << [seg |-> i, by |-> "legacy", factor |-> adjust_speed_factor,
                           stages |-> stages, ok |-> outcome # "fail"] >>
                  ELSE << >>,
         place |-> [seg |-> i,
                    start_ms |-> start_ms,
                    target_duration_ms |-> target_duration_ms,
                    offset |-> Len(withSilence),
                    silence |-> silence_duration,
                    clip |-> clip,
                    body |-> body,
                    padding |-> padding,
                    emitted |-> body + padding,
                    avail |-> TrailingSilence(withSilence),
                    removed |-> 0,
                    can_borrow_before2 |-> 0,
                    can_borrow_after2 |-> 0,
                    borrow_before |-> 0,
                    how |-> how,
                    failed |-> invoked /\ outcome = "fail"],
         (* ffmpeg wrote adjusted_path; the function never removes it *)
         wrote |-> invoked /\ outcome # "fail"]

(* AudioSegment.from_file (line 40) and current_duration_ms /
   target_duration_ms (line 51) are outside the try of lines 60-66 *)
LegacyRaises(segment) == ~Readable(segment) \/ segment.end - segment.start = 0

LegacyStart ==
    /\ aligner = "legacy" /\ pc = "start"
    /\ combined' = Silent(0)
    /\ last_position_ms' = 0
    /\ pc' = "align"
    /\ UNCHANGED <<loop_remaining, loop_filters, jobs, tasks, temp_dir,
                   temp_files, policy_ratio, policy_speed, aligner, segments,
                   timing_analysis, pos, placed, calls, placed_count,
                   adjusted_count, exported, target_factor, chain>>

LegacySkip ==
    /\ aligner = "legacy" /\ pc = "align" /\ pos <= Len(segments)
    /\ ~HasAudio(segments[pos])
    /\ pos' = pos + 1
    /\ UNCHANGED <<loop_remaining, loop_filters, jobs, tasks, temp_dir,
                   temp_files, policy_ratio, policy_speed, aligner, segments, pc,
                   timing_analysis, combined, last_position_ms, placed, calls,
                   placed_count, adjusted_count, exported, target_factor, chain>>

LegacyPlace ==
    /\ aligner = "legacy" /\ pc = "align" /\ pos <= Len(segments)
    /\ HasAudio(segments[pos]) /\ ~LegacyRaises(segments[pos])
    /\ \E outcome \in TempoOutcomes :
          LET r == LegacyStep(combined, last_position_ms, segments, pos, outcome)
          IN  /\ combined' = r.combined
              /\ last_position_ms' = r.last_position_ms
              /\ placed' = Append(placed, r.place)
              /\ calls' = calls \o r.call
              /\ temp_files' = IF r.wrote THEN temp_files \cup {pos} ELSE temp_files
    /\ pos' = pos + 1
    /\ UNCHANGED <<loop_remaining, loop_filters, jobs, tasks, temp_dir,
                   policy_ratio, policy_speed, aligner, segments, pc,
                   timing_analysis, placed_count, adjusted_count, exported,
                   target_factor, chain>>

(* the exception leaves align_segments: the segments after this one are not
   handled and nothing is exported *)
LegacyRaise ==
    /\ aligner = "legacy" /\ pc = "align" /\ pos <= Len(segments)
    /\ HasAudio(segments[pos]) /\ LegacyRaises(segments[pos])
    /\ pc' = "raised"
    /\ UNCHANGED <<loop_remaining, loop_filters, jobs, tasks, temp_dir,
                   temp_files, policy_ratio, policy_speed, aligner, segments,
                   timing_analysis, pos, combined, last_position_ms, placed, calls,
                   placed_count, adjusted_count, exported, target_factor, chain>>

LegacyExport ==
    /\ aligner = "legacy" /\ pc = "align" /\ pos > Len(segments)
    /\ exported' = [written |-> TRUE, track |-> combined]
    /\ pc' = "done"
    /\ UNCHANGED <<loop_remaining, loop_filters, jobs, tasks, temp_dir,
                   temp_files, policy_ratio, policy_speed, aligner, segments,
                   timing_analysis, pos, combined, last_position_ms, placed, calls,
                   placed_count, adjusted_count, target_factor, chain>>

(* subprocess.run without check=True: a failing ffmpeg raises nothing *)
SimpleRaised_Unchecked(early, invoked, outcome) == early
(* the iteration leaves the try block by an exception: from_file or the
   division raised, or subprocess.run(..., check=True) did *)
SimpleRaised(early, invoked, outcome) == early \/ (invoked /\ outcome = "fail")

(***************************************************************************)
(* align_simple.align_segments_simple (overlay mode): one iteration of the *)
(* loop for a segment that has audio.  A failing ffmpeg raises             *)
(* (check=True), as do an undecodable clip (line 31) and a 0 ms window     *)
(* (line 42); the except clause of the iteration swallows all of them.     *)
(***************************************************************************)
SimpleStep(track, segs, i, outcome) ==
    LET start_ms == segs[i].start
        end_ms == segs[i].end
        target_duration_ms == end_ms - start_ms
        current_duration_ms == segs[i].audio
        (* from_file raised, or current_duration_ms / 0 did *)
        early == ~Readable(segs[i])
                 \/ (current_duration_ms > 0 /\ target_duration_ms = 0)
        speed_needed == <<current_duration_ms, target_duration_ms>>
        minor == RLe(speed_needed, <<115, 100>>)
        invoked == ~early /\ current_duration_ms > 0
                   /\ \/ minor /\ RLt(One, speed_needed)
                      \/ ~minor /\ RLe(speed_needed, ATEMPO_MAX)
        stages == SimpleChain(speed_needed)
        raised == SimpleRaised(early, invoked, outcome)
        how == IF current_duration_ms <= 0 \/ raised THEN "none"
               ELSE IF invoked THEN "adjusted"
               ELSE IF minor THEN "asis"
               ELSE "truncated"
        clip == IF how = "adjusted" THEN TempoLen(current_duration_ms, stages, outcome)
                ELSE current_duration_ms
        body == IF how = "truncated" THEN Min(current_duration_ms, target_duration_ms)
                ELSE clip
    IN  [combined |-> IF how = "none" THEN track
                      ELSE Overlay(track, Clip(i, body), start_ms),
         call |-> IF invoked
                  THEN << [seg |-> i, by |-> "simple", factor |-> speed_needed,
                           stages |-> stages, ok |-> outcome # "fail"] >>
                  ELSE << >>,
         placed_inc |-> IF how = "none" THEN 0 ELSE 1,
         adjusted_inc |-> IF how = "adjusted" THEN 1 ELSE 0,
         (* ffmpeg wrote temp_path; temp_path.unlink() after the overlay *)
         created |-> IF how = "adjusted" THEN {i} ELSE {},
         unlinked |-> IF how = "adjusted" THEN {i} ELSE {},
         place |-> IF how = "none" THEN << >>
                   ELSE << [seg |-> i,
                            start_ms |-> start_ms,
                            target_duration_ms |-> target_duration_ms,
                            offset |-> start_ms,
                            silence |-> 0,
                            clip |-> clip,
                            body |-> body,
                            padding |-> 0,
                            emitted |-> OverlaidLen(track, Clip(i, body), start_ms),
                            avail |-> 0,
                            removed |-> 0,
                            can_borrow_before2 |-> 0,
                            can_borrow_after2 |-> 0,
                            borrow_before |-> 0,
                            how |-> how,
                            failed |-> FALSE] >>]

SimpleStart ==
    /\ aligner = "simple" /\ pc = "start"
    /\ segments # << >>
    /\ combined' = Silent(segments[Len(segments)].end)
    /\ placed_count' = 0
    /\ adjusted_count' = 0
    /\ pc' = "align"
    /\ UNCHANGED <<loop_remaining, loop_filters, jobs, tasks, temp_dir,
                   temp_files, policy_ratio, policy_speed, aligner, segments,
                   timing_analysis, pos, last_position_ms, placed, calls, exported,
                   target_factor, chain>>

(* raise ValueError("No segments to align") *)
SimpleRaise ==
    /\ aligner = "simple" /\ pc = "start"
    /\ segments = << >>
    /\ pc' = "raised"
    /\ UNCHANGED <<loop_remaining, loop_filters, jobs, tasks, temp_dir,
                   temp_files, policy_ratio, policy_speed, aligner, segments,
                   timing_analysis, pos, combined, last_position_ms, placed, calls,
                   placed_count, adjusted_count, exported, target_factor, chain>>

SimpleSkip ==
    /\ aligner = "simple" /\ pc = "align" /\ pos <= Len(segments)
    /\ ~HasAudio(segments[pos])
    /\ pos' = pos + 1
    /\ UNCHANGED <<loop_remaining, loop_filters, jobs, tasks, temp_dir,
                   temp_files, policy_ratio, policy_speed, aligner, segments, pc,
                   timing_analysis, combined, last_position_ms, placed, calls,
                   placed_count, adjusted_count, exported, target_factor, chain>>

SimplePlace ==
    /\ aligner = "simple" /\ pc = "align" /\ pos <= Len(segments)
    /\ HasAudio(segments[pos])
    /\ \E outcome \in TempoOutcomes :
          LET r == SimpleStep(combined, segments, pos, outcome)
          IN  /\ combined' = r.combined
              /\ placed' = placed \o r.place
              /\ calls' = calls \o r.call
              /\ placed_count' = placed_count + r.placed_inc
              /\ adjusted_count' = adjusted_count + r.adjusted_inc
              /\ temp_files' = (temp_files \cup r.created) \ r.unlinked
    /\ pos' = pos + 1
    /\ UNCHANGED <<loop_remaining, loop_filters, jobs, tasks, temp_dir,
                   policy_ratio, policy_speed, aligner, segments, pc,
                   timing_analysis, last_position_ms, exported, target_factor,
                   chain>>

SimpleExport ==
    /\ aligner = "simple" /\ pc = "align" /\ pos > Len(segments)
    /\ exported' = [written |-> TRUE, track |-> combined]
    /\ pc' = "done"
    /\ UNCHANGED <<loop_remaining, loop_filters, jobs, tasks, temp_dir,
                   temp_files, policy_ratio, policy_speed, aligner, segments,
                   timing_analysis, pos, combined, last_position_ms, placed, calls,
                   placed_count, adjusted_count, target_factor, chain>>

(***************************************************************************)
(* The three chain builders applied to one target factor.                  *)
(***************************************************************************)
ChainBuild ==
    /\ aligner = "chain" /\ pc = "start"
    /\ chain' = [improved |-> ImprovedChain(target_factor),
                 simple |-> SimpleChain(target_factor),
                 legacy |-> LegacyChain(target_factor)]
    /\ pc' = "done"
    /\ UNCHANGED <<loop_remaining, loop_filters, jobs, tasks, temp_dir,
                   temp_files, policy_ratio, policy_speed, aligner, segments,
                   timing_analysis, pos, combined, last_position_ms, placed, calls,
                   placed_count, adjusted_count, exported, target_factor>>

(***************************************************************************)
(* calculate_gentle_speed applied to one duration ratio.                   *)
(***************************************************************************)
PolicyApply ==
    /\ aligner = "policy" /\ pc = "start"
    /\ policy_speed' = calculate_gentle_speed(policy_ratio)
    /\ pc' = "done"
    /\ UNCHANGED <<loop_remaining, loop_filters, jobs, tasks, temp_dir,
                   temp_files, policy_ratio, aligner, segments, timing_analysis,
                   pos, combined, last_position_ms, placed, calls, placed_count,
                   adjusted_count, exported, target_factor, chain>>

(***************************************************************************)
(* Specification.                                                          *)
(***************************************************************************)
Init ==
    /\ aligner \in {"improved", "simple", "legacy", "chain", "policy"}
    /\ segments \in (IF aligner \in {"chain", "policy"} THEN {<< >>}
                     ELSE IF aligner = "simple" THEN SegmentLists(MaxOverlayClip)
                     ELSE IF aligner = "improved"
                     THEN SegmentLists(MaxClip) \cup PolicyLists
                     ELSE SegmentLists(MaxClip))
    /\ target_factor \in (IF aligner = "chain" THEN ChainFactors ELSE {One})
    /\ policy_ratio \in (IF aligner = "policy" THEN PolicyRatios ELSE {One})
    /\ policy_speed = NoSpeed
    /\ loop_remaining = One
    /\ loop_filters = << >>
    /\ jobs = << >>
    /\ tasks = << >>
    /\ temp_dir = << >>
    /\ temp_files = {}
    /\ pc = "start"
    /\ timing_analysis = << >>
    /\ pos = 1
    /\ combined = << >>
    /\ last_position_ms = 0
    /\ placed = << >>
    /\ calls = << >>
    /\ placed_count = 0
    /\ adjusted_count = 0
    /\ exported = NotExported
    /\ chain = NoChain

Next ==
    \/ ImprovedAnalyze \/ ImprovedRaise \/ ImprovedPlace \/ ImprovedExport
    \/ LegacyStart \/ LegacySkip \/ LegacyPlace \/ LegacyRaise \/ LegacyExport
    \/ SimpleRaise \/ SimpleStart \/ SimpleSkip \/ SimplePlace \/ SimpleExport
    \/ ChainBuild
    \/ PolicyApply

Spec == Init /\ [][Next]_vars

(* each entry point on its own *)
InitImproved == Init /\ aligner = "improved"
NextImproved == ImprovedAnalyze \/ ImprovedRaise \/ ImprovedPlace \/ ImprovedExport
SpecImproved == InitImproved /\ [][NextImproved]_vars

InitLegacy == Init /\ aligner = "legacy"
NextLegacy == LegacyStart \/ LegacySkip \/ LegacyPlace \/ LegacyRaise \/ LegacyExport
SpecLegacy == InitLegacy /\ [][NextLegacy]_vars

InitSimple == Init /\ aligner = "simple"
NextSimple == SimpleRaise \/ SimpleStart \/ SimpleSkip \/ SimplePlace \/ SimpleExport
SpecSimple == InitSimple /\ [][NextSimple]_vars

InitChain == Init /\ aligner = "chain"
NextChain == ChainBuild
SpecChain == InitChain /\ [][NextChain]_vars

InitPolicy == Init /\ aligner = "policy"
NextPolicy == PolicyApply
SpecPolicy == InitPolicy /\ [][NextPolicy]_vars

(***************************************************************************)
(* The aggressive-tier scenario at the scale of the code: a segment with   *)
(* start = 1.0 s and end = 3.0 s whose clip is 3000 ms long, alone or with *)
(* a neighbour on either side.  The neighbour before it starts at 0 and    *)
(* ends 0 .. MaxScenarioGap steps of ScenarioStep ms before 1000 ms, with  *)
(* a clip that fills its window or with none; the neighbour after it       *)
(* begins 0 .. MaxScenarioGap steps after 3000 ms.                         *)
(***************************************************************************)
ScenarioSegment == [start |-> 1000, end |-> 3000, audio |-> 3000]
ScenarioBefore ==
    {<< >>} \cup
    {<< [start |-> 0, end |-> 1000 - g * ScenarioStep, audio |-> a] >> :
        g \in 0..(MaxScenarioGap - 1),
        a \in {NoAudio, ScenarioStep}}
ScenarioAfter ==
    {<< >>} \cup
    {<< [start |-> 3000 + g * ScenarioStep,
         end |-> 3000 + (g + 1) * ScenarioStep,
         audio |-> ScenarioStep] >> : g \in 0..MaxScenarioGap}
ScenarioLists ==
    {b \o <<ScenarioSegment>> \o a : b \in ScenarioBefore, a \in ScenarioAfter}

InitScenario ==
    /\ aligner = "improved"
    /\ segments \in ScenarioLists
    /\ target_factor = One
    /\ policy_ratio = One
    /\ policy_speed = NoSpeed
    /\ loop_remaining = One
    /\ loop_filters = << >>
    /\ jobs = << >>
    /\ tasks = << >>
    /\ temp_dir = << >>
    /\ temp_files = {}
    /\ pc = "start"
    /\ timing_analysis = << >>
    /\ pos = 1
    /\ combined = << >>
    /\ last_position_ms = 0
    /\ placed = << >>
    /\ calls = << >>
    /\ placed_count = 0
    /\ adjusted_count = 0
    /\ exported = NotExported
    /\ chain = NoChain
NextScenario == ImprovedAnalyze \/ ImprovedPlace \/ ImprovedExport
SpecScenario == InitScenario /\ [][NextScenario]_vars

(***************************************************************************)
(* ImprovedAligner.adjust_audio_speed step by step: the early return, the  *)
(* iterations of the while loop and the residual stage, for one factor.    *)
(* The factors are those of the chain specification and the values         *)
(* calculate_gentle_speed returns.  MaxLoopIterations caps the iterations  *)
(* the model follows: a loop that needs more stays where it is.            *)
(***************************************************************************)
GentleSpeeds == {calculate_gentle_speed(r) : r \in PolicyRatios}
LoopFactors == ChainFactors \cup GentleSpeeds

(* the accumulator multiplied by the stage instead of divided by it *)
LoopDivide_Multiplying(remaining_factor) ==
    IF RLt(remaining_factor, ATEMPO_MIN) THEN RMul(remaining_factor, ATEMPO_MIN)
    ELSE RMul(remaining_factor, ATEMPO_MAX)
(* remaining_factor /= 0.5, remaining_factor /= 2.0 *)
LoopDivide(remaining_factor) ==
    IF RLt(remaining_factor, ATEMPO_MIN) THEN RDiv(remaining_factor, ATEMPO_MIN)
    ELSE RDiv(remaining_factor, ATEMPO_MAX)
(* while remaining_factor < 0.5 or remaining_factor > 2.0 *)
LoopCondition(remaining_factor) ==
    RLt(remaining_factor, ATEMPO_MIN) \/ RLt(ATEMPO_MAX, remaining_factor)

LoopEnter ==
    /\ aligner = "loop" /\ pc = "start"
    /\ IF RLt(RDev(target_factor), EPSILON)
       THEN /\ pc' = "done"
            /\ UNCHANGED <<loop_remaining, loop_filters>>
       ELSE /\ loop_filters' = << >>
            /\ loop_remaining' = target_factor
            /\ pc' = "loop"
    /\ UNCHANGED <<jobs, tasks, temp_dir, temp_files, policy_ratio, policy_speed, aligner,
                   segments, timing_analysis, pos, combined, last_position_ms, placed,
                   calls, placed_count, adjusted_count, exported, target_factor, chain>>

LoopBody ==
    /\ aligner = "loop" /\ pc = "loop"
    /\ LoopCondition(loop_remaining)
    /\ Len(loop_filters) < MaxLoopIterations
    /\ loop_filters' = Append(loop_filters,
                              IF RLt(loop_remaining, ATEMPO_MIN) THEN ATEMPO_MIN
                              ELSE ATEMPO_MAX)
    /\ loop_remaining' = LoopDivide(loop_remaining)
    /\ UNCHANGED <<jobs, tasks, temp_dir, temp_files, policy_ratio, policy_speed, aligner,
                   segments, pc, timing_analysis, pos, combined, last_position_ms,
                   placed, calls, placed_count, adjusted_count, exported,
                   target_factor, chain>>

LoopExit ==
    /\ aligner = "loop" /\ pc = "loop"
    /\ ~LoopCondition(loop_remaining)
    /\ loop_filters' = IF RLt(EPSILON, RDev(loop_remaining))
                       THEN Append(loop_filters, loop_remaining)
                       ELSE loop_filters
    /\ pc' = "done"
    /\ UNCHANGED <<loop_remaining, jobs, tasks, temp_dir, temp_files, policy_ratio,
                   policy_speed, aligner, segments, timing_analysis, pos, combined,
                   last_position_ms, placed, calls, placed_count, adjusted_count,
                   exported, target_factor, chain>>

InitLoop ==
    /\ aligner = "loop"
    /\ segments = << >>
    /\ target_factor \in LoopFactors
    /\ policy_ratio = One
    /\ policy_speed = NoSpeed
    /\ loop_remaining = One
    /\ loop_filters = << >>
    /\ jobs = << >>
    /\ tasks = << >>
    /\ temp_dir = << >>
    /\ temp_files = {}
    /\ pc = "start"
    /\ timing_analysis = << >>
    /\ pos = 1
    /\ combined = << >>
    /\ last_position_ms = 0
    /\ placed = << >>
    /\ calls = << >>
    /\ placed_count = 0
    /\ adjusted_count = 0
    /\ exported = NotExported
    /\ chain = NoChain
NextLoop == LoopEnter \/ LoopBody \/ LoopExit
(* the loop runs in a thread that keeps being scheduled: a step that stays
   possible is taken *)
SpecLoop == InitLoop /\ [][NextLoop]_vars /\ WF_vars(NextLoop)

(***************************************************************************)
(* The web server (src/web_server.py): POST /dub creates a job and hands   *)
(* run_autodub_pipeline to a background thread; the threads of different   *)
(* jobs run concurrently.  Each thread runs                                *)
(* enhanced_autodub_pipeline_with_progress (autodub/web_pipeline.py),      *)
(* whose stages report through the progress callback and work on files of  *)
(* TEMP_DIR, the one directory of config.py.  A job id is a fresh 8-digit  *)
(* prefix of a uuid4, taken as unique.                                     *)
(***************************************************************************)
JobIds == 1..MaxJobs

(* the step number of each update_progress call of the pipeline, in order:
   download, transcribe, separate, speakers, cloning, profiles, voices,
   translate, synthesize, align, mix, mux, completed *)
ProgressSteps == <<1, 2, 3, 4, 4, 5, 5, 6, 7, 8, 8, 9, 9>>
(* calls that are skipped on some paths: cloning (voice_clone), the second
   call of step 5 (one speaker), mixing (no background) *)
OptionalCalls == {5, 7, 11}
SynthesizeCall == 9
AlignCall == 10
MixCall == 11
MuxCall == 12
LastCall == Len(ProgressSteps)
NextCalls(p) == IF p + 1 \in OptionalCalls THEN {p + 1, p + 2} ELSE {p + 1}

(* the files of TEMP_DIR with the same name in every job; a file is modelled
   by the job whose speech it holds, NoFile when it does not exist *)
SegmentFile == "segment_0000.mp3"
DubbedFile == "dubbed_audio.wav"
MixedFile == "mixed_final.wav"
TempFiles == {SegmentFile, DubbedFile, MixedFile}
NoFile == 0

(* jobs[job_id] = {..., "status": "queued", "progress": 0, ...} *)
QueuedJob == [status |-> "queued", progress |-> 0]
(* the update_progress closure of run_autodub_pipeline *)
update_progress(job, step) == [job EXCEPT !.progress = step, !.status = "processing"]
(* jobs[job_id].update({"status": "completed", ..., "progress": 9}) *)
CompletedUpdate(job) == [job EXCEPT !.status = "completed", !.progress = 9]
(* a handler that records nothing *)
FailedUpdate_Silent(job) == job
(* jobs[job_id].update({"status": "failed", ...}) *)
FailedUpdate(job) == [job EXCEPT !.status = "failed"]

NewTask == [at |-> "queued", call |-> 0, final |-> DubbedFile, muxed |-> NoFile]

(* POST /dub *)
CreateJob(j) ==
    /\ aligner = "web"
    /\ j \notin DOMAIN jobs
    /\ jobs' = jobs @@ (j :> QueuedJob)
    /\ tasks' = tasks @@ (j :> NewTask)
    /\ UNCHANGED <<loop_remaining, loop_filters, temp_dir, temp_files, policy_ratio,
                   policy_speed, aligner, segments, pc, timing_analysis, pos,
                   combined, last_position_ms, placed, calls, placed_count,
                   adjusted_count, exported, target_factor, chain>>

(* run_autodub_pipeline begins: jobs[job_id]["status"] = "processing" and
   the call of the pipeline *)
StartTask(j) ==
    /\ aligner = "web"
    /\ j \in DOMAIN tasks /\ tasks[j].at = "queued"
    /\ jobs' = [jobs EXCEPT ![j].status = "processing"]
    /\ tasks' = [tasks EXCEPT ![j].at = "pipeline"]
    /\ UNCHANGED <<loop_remaining, loop_filters, temp_dir, temp_files, policy_ratio,
                   policy_speed, aligner, segments, pc, timing_analysis, pos,
                   combined, last_position_ms, placed, calls, placed_count,
                   adjusted_count, exported, target_factor, chain>>

(* the work of the stage announced by call p, done by job j on the files:
   synthesis writes the segment file, alignment reads it and writes
   dubbed_audio.wav, mixing reads that and writes mixed_final.wav unless
   ffmpeg fails *)
StageFiles(files, j, p, mixed) ==
    IF p = SynthesizeCall THEN [files EXCEPT ![SegmentFile] = j]
    ELSE IF p = AlignCall THEN [files EXCEPT ![DubbedFile] = files[SegmentFile]]
    ELSE IF p = MixCall /\ mixed THEN [files EXCEPT ![MixedFile] = files[DubbedFile]]
    ELSE files
(* dubbed_audio_path / final_audio_path and what mux_video read from it *)
StageTask(task, files, p, mixed) ==
    IF p = AlignCall THEN [task EXCEPT !.final = DubbedFile]
    ELSE IF p = MixCall /\ mixed THEN [task EXCEPT !.final = MixedFile]
    ELSE IF p = MuxCall THEN [task EXCEPT !.muxed = files[task.final]]
    ELSE task

(* the stage of the last call finishes and the next update_progress call is
   made *)
PipelineAdvance(j) ==
    /\ aligner = "web"
    /\ j \in DOMAIN tasks /\ tasks[j].at = "pipeline" /\ tasks[j].call < LastCall
    /\ \E q \in NextCalls(tasks[j].call), mixed \in BOOLEAN :
          /\ temp_dir' = StageFiles(temp_dir, j, tasks[j].call, mixed)
          /\ tasks' = [tasks EXCEPT
                          ![j] = [StageTask(tasks[j], temp_dir, tasks[j].call, mixed)
                                     EXCEPT !.call = q]]
          /\ jobs' = [jobs EXCEPT ![j] = update_progress(jobs[j], ProgressSteps[q])]
    /\ UNCHANGED <<loop_remaining, loop_filters, temp_files, policy_ratio,
                   policy_speed, aligner, segments, pc, timing_analysis, pos,
                   combined, last_position_ms, placed, calls, placed_count,
                   adjusted_count, exported, target_factor, chain>>

(* return output_path after the last call *)
PipelineReturn(j) ==
    /\ aligner = "web"
    /\ j \in DOMAIN tasks /\ tasks[j].at = "pipeline" /\ tasks[j].call = LastCall
    /\ tasks' = [tasks EXCEPT ![j].at = "returned"]
    /\ UNCHANGED <<loop_remaining, loop_filters, jobs, temp_dir, temp_files,
                   policy_ratio, policy_speed, aligner, segments, pc, timing_analysis,
                   pos, combined, last_position_ms, placed, calls, placed_count,
                   adjusted_count, exported, target_factor, chain>>

(* the stage of the last call raises: except Exception of the pipeline calls
   update_progress(9, "Failed ...") and raises again *)
PipelineRaise(j) ==
    /\ aligner = "web"
    /\ j \in DOMAIN tasks /\ tasks[j].at = "pipeline"
    /\ tasks[j].call \in 1..(LastCall - 1)
    /\ jobs' = [jobs EXCEPT ![j] = update_progress(jobs[j], 9)]
    /\ tasks' = [tasks EXCEPT ![j].at = "raised"]
    /\ UNCHANGED <<loop_remaining, loop_filters, temp_dir, temp_files, policy_ratio,
                   policy_speed, aligner, segments, pc, timing_analysis, pos,
                   combined, last_position_ms, placed, calls, placed_count,
                   adjusted_count, exported, target_factor, chain>>

(* the success update of run_autodub_pipeline *)
TaskCompleted(j) ==
    /\ aligner = "web"
    /\ j \in DOMAIN tasks /\ tasks[j].at = "returned"
    /\ jobs' = [jobs EXCEPT ![j] = CompletedUpdate(jobs[j])]
    /\ tasks' = [tasks EXCEPT ![j].at = "ended"]
    /\ UNCHANGED <<loop_remaining, loop_filters, temp_dir, temp_files, policy_ratio,
                   policy_speed, aligner, segments, pc, timing_analysis, pos,
                   combined, last_position_ms, placed, calls, placed_count,
                   adjusted_count, exported, target_factor, chain>>

(* except Exception of run_autodub_pipeline *)
TaskFailed(j) ==
    /\ aligner = "web"
    /\ j \in DOMAIN tasks /\ tasks[j].at = "raised"
    /\ jobs' = [jobs EXCEPT ![j] = FailedUpdate(jobs[j])]
    /\ tasks' = [tasks EXCEPT ![j].at = "ended"]
    /\ UNCHANGED <<loop_remaining, loop_filters, temp_dir, temp_files, policy_ratio,
                   policy_speed, aligner, segments, pc, timing_analysis, pos,
                   combined, last_position_ms, placed, calls, placed_count,
                   adjusted_count, exported, target_factor, chain>>

InitWeb ==
    /\ aligner = "web"
    /\ segments = << >>
    /\ target_factor = One
    /\ policy_ratio = One
    /\ policy_speed = NoSpeed
    /\ loop_remaining = One
    /\ loop_filters = << >>
    /\ jobs = << >>
    /\ tasks = << >>
    /\ temp_dir = [f \in TempFiles |-> NoFile]
    /\ temp_files = {}
    /\ pc = "start"
    /\ timing_analysis = << >>
    /\ pos = 1
    /\ combined = << >>
    /\ last_position_ms = 0
    /\ placed = << >>
    /\ calls = << >>
    /\ placed_count = 0
    /\ adjusted_count = 0
    /\ exported = NotExported
    /\ chain = NoChain
(* the steps of the background thread of job j *)
TaskNext(j) ==
    \/ StartTask(j) \/ PipelineAdvance(j) \/ PipelineReturn(j) \/ PipelineRaise(j)
    \/ TaskCompleted(j) \/ TaskFailed(j)
NextWeb ==
    \/ \E j \in JobIds : CreateJob(j)
    \/ \E j \in JobIds : StartTask(j)
    \/ \E j \in JobIds : PipelineAdvance(j)
    \/ \E j \in JobIds : PipelineReturn(j)
    \/ \E j \in JobIds : PipelineRaise(j)
    \/ \E j \in JobIds : TaskCompleted(j)
    \/ \E j \in JobIds : TaskFailed(j)
(* a thread of the pool that can take a step is scheduled in the end *)
SpecWeb == InitWeb /\ [][NextWeb]_vars /\ \A j \in JobIds : WF_vars(TaskNext(j))

(***************************************************************************)
(* Properties.                                                             *)
(***************************************************************************)
AppendMode == aligner \in {"improved", "legacy"}
Placements == 1..Len(placed)
(* the milliseconds of the master track a placement was put on *)
Range(p) == p.offset .. (p.offset + p.emitted - 1)
PairwiseDisjoint ==
    \A i, j \in Placements : i < j => Range(placed[i]) \cap Range(placed[j]) = {}
AllStages(stageLists) == UNION {{sl[k] : k \in 1..Len(sl)} : sl \in stageLists}
CallStages == AllStages({calls[k].stages : k \in 1..Len(calls)})
InRange(x, lo, hi) == RLe(lo, x) /\ RLe(x, hi)
LastEnd == segments[Len(segments)].end
(* silence inserted, less the silence a borrow removed, plus the clips, over
   placed[1..n] *)
RECURSIVE Accounted(_)
Accounted(n) ==
    IF n = 0 THEN 0
    ELSE Accounted(n - 1) + placed[n].silence + placed[n].padding
         - Min(placed[n].removed, placed[n].avail) + placed[n].body

(* C1: in append mode (ImprovedAligner and align.align_segments), after every
   prefix of the segments, the ranges [offset, offset + emitted) of the clips
   placed so far are pairwise disjoint. *)
C1_AppendClipsDisjoint == AppendMode => PairwiseDisjoint

(* C2: in overlay mode (align_segments_simple) the ranges
   [start_ms, start_ms + emitted) of the placed clips are pairwise disjoint. *)
C2_OverlayClipsDisjoint == aligner = "simple" => PairwiseDisjoint

(* C3 as stated: every tempo factor handed to the tempo primitive, by any
   aligner, lies within [MIN_SPEED_FACTOR, MAX_SPEED_FACTOR] = [0.7, 1.4]. *)
C3_FactorsWithinSpeedBounds ==
    \A st \in CallStages : InRange(st, MIN_SPEED_FACTOR, MAX_SPEED_FACTOR)

(* C3 as amended: every tempo factor ImprovedAligner hands to the primitive
   lies within [0.7, 1.4]; those of align_segments_simple lie within
   (1.0, 2.0] and those of align.align_segments within [0.5, 2.0]. *)
C3_FactorsWithinAlignerBounds ==
    \A k \in 1..Len(calls) : \A n \in 1..Len(calls[k].stages) :
        LET st == calls[k].stages[n]
        IN  /\ calls[k].by = "improved" =>
                InRange(st, MIN_SPEED_FACTOR, MAX_SPEED_FACTOR)
            /\ calls[k].by = "simple" => RLt(One, st) /\ RLe(st, ATEMPO_MAX)
            /\ calls[k].by = "legacy" => InRange(st, ATEMPO_MIN, ATEMPO_MAX)

(* ImprovedAligner handed a factor that the clamp cut to MIN_SPEED_FACTOR *)
C3_ClampedFactorHanded ==
    \E k \in 1..Len(calls) :
        /\ calls[k].by = "improved"
        /\ calls[k].stages = << MIN_SPEED_FACTOR >>
        /\ RLt(<<segments[calls[k].seg].end - segments[calls[k].seg].start,
                 segments[calls[k].seg].audio>>, MIN_SPEED_FACTOR)

(* C4: whenever a clip longer than its target window is truncated, the audio
   emitted for that segment has length exactly end_ms - start_ms. *)
C4_TruncationExact ==
    \A k \in Placements :
        placed[k].how = "truncated" => placed[k].emitted = placed[k].target_duration_ms

(* C5: in append mode, whenever the final clip of a segment is shorter than
   its target window, the audio emitted for the segment is the clip followed
   by trailing silence, of total length exactly end_ms - start_ms. *)
C5_PaddingExact ==
    AppendMode =>
        \A k \in Placements :
            placed[k].clip < placed[k].target_duration_ms =>
                /\ placed[k].body = placed[k].clip
                /\ placed[k].emitted = placed[k].target_duration_ms

(* C6: in overlay mode the master track, from its allocation to the export,
   has length exactly int(segments[-1].end * 1000), whatever was overlaid. *)
C6_OverlayTrackLength ==
    aligner = "simple" /\ pc \in {"align", "done"} =>
        /\ Len(combined) = LastEnd
        /\ exported.written => Len(exported.track) = LastEnd

(* an exported overlay track onto which a clip running past its end was put *)
C6_OverlayPastEndExported ==
    /\ aligner = "simple" /\ exported.written
    /\ \E k \in Placements :
          placed[k].start_ms + placed[k].body > LastEnd /\ placed[k].emitted > 0

(* C7: in append mode, after every segment, the length of the master track is
   the sum of the silences inserted, net of the silence an accepted borrow
   removed, plus the sum of the emitted durations of the placed clips. *)
C7_AppendLengthAccounted ==
    AppendMode /\ pc # "start" => Len(combined) = Accounted(Len(placed))

(* C8: after an accepted borrow, what was trimmed from the tail of the track
   does not exceed the silence emitted before the segment (no sample of an
   earlier clip is removed), and neither borrowed amount is negative. *)
C8_BorrowWithinSilence ==
    \A k \in Placements :
        placed[k].how = "borrowed" =>
            /\ placed[k].removed <= placed[k].avail
            /\ placed[k].can_borrow_before2 >= 0
            /\ placed[k].can_borrow_after2 >= 0

(* |product - f| <= tol * base, all three rationals *)
Within(product, f, tol, base) ==
    Abs(product[1] * f[2] - f[1] * product[2]) * tol[2] * base[2]
        <= tol[1] * base[1] * product[2] * f[2]
ChainBuilt == aligner = "chain" /\ pc = "done"

(* C9 as stated: for every target factor f, the product of the stages of
   ImprovedAligner.adjust_audio_speed equals f within 1e-3 relative
   tolerance, an empty chain counting as 1. *)
C9_ProductWithin1e3 ==
    ChainBuilt =>
        Within(StageProduct(chain.improved), target_factor, <<1, 1000>>, target_factor)

(* C9 as amended: the product of the stages equals f within 1e-2 of the
   product (the residual stage is dropped when within 0.01 of 1.0). *)
C9_ProductWithinEpsilon ==
    ChainBuilt =>
        Within(StageProduct(chain.improved), target_factor, EPSILON,
               StageProduct(chain.improved))

(* a chain whose residual stage was dropped after the loop ran *)
C9_ResidualDropped ==
    /\ ChainBuilt
    /\ chain.improved # << >>
    /\ ~REq(StageProduct(chain.improved), target_factor)

(* C10: for every target factor f, every stage emitted by a tempo filter
   chain (ImprovedAligner.adjust_audio_speed, adjust_audio_simple,
   align.adjust_audio_speed) lies in [0.5, 2.0]. *)
C10_StagesWithinAtempoRange ==
    \A st \in AllStages({chain.improved, chain.simple, chain.legacy}) :
        InRange(st, ATEMPO_MIN, ATEMPO_MAX)

(* a factor above 4.0: two 2.0 stages and a residual, and a clamped single stage *)
C10_LongChainBuilt ==
    /\ ChainBuilt
    /\ Len(chain.improved) = 3
    /\ chain.legacy = << ATEMPO_MAX >>
    /\ RLt(ATEMPO_MAX, target_factor)

(* the segment a placement belongs to, and its exact ratio current / target *)
SegmentOf(p) == segments[p.seg]
RatioOf(p) == <<SegmentOf(p).audio, SegmentOf(p).end - SegmentOf(p).start>>
CalledFor(p) == \E n \in 1..Len(calls) : calls[n].seg = p.seg

(* C11: in ImprovedAligner, for every segment with |1 - duration_ratio| <=
   PERFECT_THRESHOLD (0.05) the committed tempo factor is 1.0 (the clip is
   taken as it is), the tempo primitive is not invoked for it, and the clip
   emitted into the master track has the duration of the input clip. *)
C11_PerfectFitUntouched ==
    aligner = "improved" =>
        \A k \in Placements :
            RLe(RDev(RatioOf(placed[k])), PERFECT_THRESHOLD) =>
                /\ placed[k].how = "asis"
                /\ ~CalledFor(placed[k])
                /\ placed[k].emitted = SegmentOf(placed[k]).audio

(* max(lo, min(hi, x)) on exact rationals *)
Clamped(x, lo, hi) == IF RLt(x, lo) THEN lo ELSE IF RLt(hi, x) THEN hi ELSE x
(* 1 + share * (ideal - 1), share = p / 10 *)
Partial(ideal, p) == <<ideal[2] * 10 + p * (ideal[1] - ideal[2]), ideal[2] * 10>>
PolicyApplied == aligner = "policy" /\ pc = "done"

(* C12: for every duration_ratio r > 0, with d = |1 - r| and ideal = 1 / r,
   calculate_gentle_speed returns 1.0 if d <= 0.05, clamp(1 + 0.5 (ideal - 1),
   0.7, 1.4) if 0.05 < d <= 0.15, clamp(1 + 0.7 (ideal - 1), 0.7, 1.4) if
   0.15 < d <= 0.30 and clamp(ideal, 0.7, 1.4) if d > 0.30; a deviation equal
   to a threshold falls in the lower tier. *)
C12_TieredSpeed ==
    PolicyApplied =>
        LET d == RDev(policy_ratio)
            ideal == <<policy_ratio[2], policy_ratio[1]>>
            expected ==
                IF RLe(d, <<5, 100>>) THEN One
                ELSE IF RLe(d, <<15, 100>>)
                THEN Clamped(Partial(ideal, 5), <<7, 10>>, <<14, 10>>)
                ELSE IF RLe(d, <<30, 100>>)
                THEN Clamped(Partial(ideal, 7), <<7, 10>>, <<14, 10>>)
                ELSE Clamped(ideal, <<7, 10>>, <<14, 10>>)
        IN  REq(policy_speed, expected)

(* C13: when the corrected clip exceeds its window by overhang > 0, the
   borrower computes can_borrow_before = min(overhang / 2, 0.5 silence_before)
   and can_borrow_after = min(overhang / 2, 0.5 silence_after), never more
   than half of either gap; the borrow is accepted if and only if their sum
   is at least 0.8 overhang, and then the adjusted clip is placed in full;
   otherwise the adjusted clip is truncated to the target window.  (The
   amounts are carried doubled; the gaps are read off the segment list.) *)
C13_BorrowRule ==
    aligner = "improved" =>
        \A k \in Placements :
            LET p == placed[k]
                i == p.seg
                overhang == p.clip - p.target_duration_ms
                silence_before ==
                    segments[i].start - (IF i > 1 THEN segments[i - 1].end ELSE 0)
                before2 == Min(overhang, silence_before)
                after2 == IF i = Len(segments) THEN overhang
                          ELSE Min(overhang, segments[i + 1].start - segments[i].end)
                enough == 5 * (before2 + after2) >= 8 * overhang
            IN  p.how # "asis" /\ overhang > 0 =>
                    /\ (p.how = "borrowed") <=> enough
                    /\ p.how = "borrowed" =>
                          /\ p.can_borrow_before2 = before2
                          /\ p.can_borrow_after2 = after2
                          /\ before2 <= silence_before
                          /\ i < Len(segments) =>
                                after2 <= segments[i + 1].start - segments[i].end
                          /\ p.body = p.clip
                    /\ ~enough => p.how = "truncated" /\ p.body = p.target_duration_ms

(* a borrow accepted although the two gaps cover less than the whole overhang,
   with silence taken before the segment *)
C13_PartialBorrowAccepted ==
    \E k \in Placements :
        /\ placed[k].how = "borrowed"
        /\ placed[k].can_borrow_before2 > 0
        /\ placed[k].can_borrow_before2 + placed[k].can_borrow_after2
               < 2 * (placed[k].clip - placed[k].target_duration_ms)

(* C14: a segment with no audio clip contributes exactly target_duration_ms
   of silence to the master track over its window [start_ms, end_ms), in
   either placement mode and wherever it stands in the list, and it triggers
   no tempo-primitive call and no placement. *)
C14_NoAudioIsSilence ==
    exported.written =>
        \A i \in 1..Len(segments) :
            ~HasAudio(segments[i]) =>
                /\ Len(exported.track) >= segments[i].end
                /\ \A ms \in (segments[i].start + 1)..segments[i].end :
                      exported.track[ms] = {}
                /\ \A n \in 1..Len(calls) : calls[n].seg # i
                /\ \A n \in Placements : placed[n].seg # i

(* C15: given an empty segment list, every alignment entry point
   (align_segments_simple, ImprovedAligner.align_segments,
   align.align_segments) reports a precondition failure: it never gets to
   allocating the master track (pc = "align") nor to writing the output. *)
C15_EmptyListRejected ==
    aligner \in {"improved", "simple", "legacy"} /\ segments = << >> =>
        /\ pc \in {"start", "raised"}
        /\ ~exported.written

(* segment i fails on its own: undecodable clip, 0 ms window, or a failed
   call of the tempo primitive *)
FailsAlone(i) ==
    \/ ~Readable(segments[i])
    \/ segments[i].end - segments[i].start = 0
    \/ \E n \in 1..Len(calls) : calls[n].seg = i /\ ~calls[n].ok

(* C16: for a non-empty segment list, a failure confined to one segment
   (unreadable clip, tempo-primitive failure, 0 ms window) never aborts the
   composition: the entry point does not leave by an exception, and when it
   is done the track is exported and every segment with audio that did not
   fail has been placed. *)
C16_FailureStaysLocal ==
    aligner \in {"improved", "simple", "legacy"} /\ segments # << >> =>
        /\ pc # "raised"
        /\ pc = "done" =>
              /\ exported.written
              /\ \A i \in 1..Len(segments) :
                    HasAudio(segments[i]) /\ ~FailsAlone(i) =>
                        \E n \in Placements : placed[n].seg = i

(* C17: if the tempo primitive fails for a segment, the segment's original,
   unmodified clip is used instead and is still placed in the master track;
   the segment is never dropped. *)
C17_FailedSegmentStillPlaced ==
    \A n \in 1..Len(calls) :
        ~calls[n].ok =>
            \E k \in Placements :
                /\ placed[k].seg = calls[n].seg
                /\ placed[k].clip = segments[calls[n].seg].audio

(* C18: in append mode the write cursor advances by the duration actually
   emitted for each clip (the truncated length when the clip was truncated),
   so after the silence and the clip of every segment the cursor equals the
   length of the master track. *)
C18_CursorIsTrackLength ==
    AppendMode /\ pc \in {"align", "done"} => last_position_ms = Len(combined)

Analysed == aligner = "improved" /\ pc \in {"align", "done"}
Entries == 1..Len(timing_analysis)
(* the gap to the next list entry's start, unbounded for the last entry *)
GapAfter(i) ==
    IF i = Len(segments) THEN Infinity ELSE segments[i + 1].start - segments[i].end

(* C19 as stated: for each segment with audio, silence_before is the gap
   between the previous segment's end and this segment's start, and 0 for the
   first segment; silence_after is the gap to the next segment's start, and
   +infinity for the last segment. *)
C19_SilenceWindowsFirstZero ==
    Analysed =>
        \A e \in Entries :
            LET info == timing_analysis[e]
                i == info.index
            IN  /\ info.silence_before =
                       (IF i = 1 THEN 0 ELSE segments[i].start - segments[i - 1].end)
                /\ info.silence_after = GapAfter(i)

(* C19 as amended: silence_before is start_ms less the end of the previous
   list entry, and for the first list entry start_ms itself (the lead-in from
   time 0); silence_after is as stated. *)
C19_SilenceWindowsLeadIn ==
    Analysed =>
        \A e \in Entries :
            LET info == timing_analysis[e]
                i == info.index
            IN  /\ info.silence_before =
                       (IF i = 1 THEN segments[i].start
                        ELSE segments[i].start - segments[i - 1].end)
                /\ info.silence_after = GapAfter(i)

(* a list of two segments with audio analysed, the first starting after 0 *)
C19_LateFirstSegmentAnalysed ==
    /\ Analysed
    /\ Len(timing_analysis) = 2
    /\ timing_analysis[1].index = 1
    /\ timing_analysis[1].start_ms > 0
    /\ timing_analysis[2].silence_after = Infinity

(* C20: every temporary adjusted-audio file created for a segment is released
   by the time the segment's processing ends, on every exit path: between two
   segments and at the end of the composition no adjusted_* file remains. *)
C20_NoTemporaryRemains == temp_files = {}

(* the placement of the scenario's segment, and the tempo calls made for it *)
IsScenario(p) == aligner = "improved" /\ SegmentOf(p) = ScenarioSegment
CallsFor(p) == {n \in 1..Len(calls) : calls[n].seg = p.seg}

(* C21: for the segment with start = 1.0, end = 3.0 and a 3000 ms clip,
   ImprovedAligner computes duration_ratio 1.5, which lies in the aggressive
   tier, commits factor 0.7, hands the primitive a chain of exactly one stage
   0.7, gets back a clip of 4285 or 4286 ms (overhang 2285 or 2286 ms) when
   the primitive succeeds, attempts a borrow, and when the borrow is not
   accepted emits exactly 2000 ms for the segment. *)
C21_AggressiveScenario ==
    \A k \in Placements :
        IsScenario(placed[k]) =>
            LET p == placed[k]
                info == CHOOSE e \in {timing_analysis[i] : i \in Entries} :
                            e.index = p.seg
            IN  /\ REq(info.duration_ratio, <<3, 2>>)
                /\ DeviationAbove(info.duration_ratio, MODERATE_THRESHOLD)
                /\ Cardinality(CallsFor(p)) = 1
                /\ \A n \in CallsFor(p) :
                      /\ REq(calls[n].factor, <<7, 10>>)
                      /\ Len(calls[n].stages) = 1
                      /\ REq(calls[n].stages[1], <<7, 10>>)
                      /\ calls[n].ok =>
                            /\ p.clip \in {4285, 4286}
                            /\ p.clip - p.target_duration_ms \in {2285, 2286}
                /\ p.target_duration_ms = 2000
                /\ p.how \in {"borrowed", "truncated"}
                /\ p.how = "truncated" => p.emitted = 2000

(* C21 witness: the scenario's clip came back 4286 ms long, the gaps did not
   cover the overhang and 2000 ms of it were emitted. *)
C21_ScenarioTruncated ==
    \E k \in Placements :
        /\ IsScenario(placed[k])
        /\ placed[k].clip = 4286
        /\ placed[k].how = "truncated"
        /\ placed[k].emitted = 2000

(* C22: every input segment is counted in exactly one outcome category and
   the counts are surfaced as a summary, so when align_segments_simple has
   finished its counters account for every input segment, those without
   audio and those whose processing failed included: read most generously,
   either placed_count alone or placed_count + adjusted_count equals the
   number of input segments. *)
C22_CountsCoverSegments ==
    (aligner = "simple" /\ pc = "done") =>
        \/ placed_count = Len(segments)
        \/ placed_count + adjusted_count = Len(segments)

(* the primitive was run for the placement's clip and returned a result *)
TempoAdjusted(p) == \E n \in 1..Len(calls) : calls[n].seg = p.seg /\ calls[n].ok

(* C23: for every segment whose clip ImprovedAligner or align.align_segments
   ran through the tempo primitive, the corrected clip is no further from
   target_duration_ms than the original clip was (1 ms allowed for the
   primitive's rounding), and a clip longer than its window did not get
   longer. *)
C23_TempoNeverWorsens ==
    AppendMode =>
        \A k \in Placements :
            TempoAdjusted(placed[k]) =>
                LET p == placed[k]
                    original == SegmentOf(p).audio
                IN  /\ Abs(p.clip - p.target_duration_ms)
                          <= Abs(original - p.target_duration_ms) + 1
                    /\ original > p.target_duration_ms => p.clip <= original

(* the end in the master track of the clip placed before placed[k] *)
PreviousEnd(k) == IF k = 1 THEN 0 ELSE placed[k - 1].offset + placed[k - 1].emitted

(* C24: in append mode every placed clip begins at an offset no earlier than
   its segment's start_ms minus the amount borrowed before it, and exactly at
   start_ms when nothing was borrowed for it and the previous clip ended at
   or before start_ms. *)
C24_ClipNotBeforeItsStart ==
    AppendMode =>
        \A k \in Placements :
            LET p == placed[k]
            IN  /\ p.offset >= p.start_ms - p.borrow_before
                /\ (p.how # "borrowed" /\ PreviousEnd(k) <= p.start_ms)
                      => p.offset = p.start_ms

(* C25: when ImprovedAligner accepts a borrow with can_borrow_before > 0, the
   track (with the silence inserted before the segment) loses exactly
   int(can_borrow_before) milliseconds from its tail, nothing when that is 0,
   what lies before the cut stays as it was, and the adjusted clip follows
   the cut. *)
C25_BorrowTrimsTailOnly ==
    [][(/\ aligner = "improved"
        /\ Len(placed') = Len(placed) + 1
        /\ placed'[Len(placed')].how = "borrowed"
        /\ placed'[Len(placed')].can_borrow_before2 > 0)
       => LET p == placed'[Len(placed')]
              before == combined \o Silent(p.silence)
              cut == Len(before) - (p.can_borrow_before2 \div 2)
          IN  /\ cut >= 0
              /\ combined' = SubSeq(before, 1, cut) \o Clip(p.seg, p.emitted)]_vars

(* the factor is one calculate_gentle_speed returns *)
IsGentleSpeed(f) == \E g \in GentleSpeeds : REq(f, g)

(* C26: for every factor f > 0 the while loop of adjust_audio_speed ends and
   the function returns with its stage list built; and for every factor
   calculate_gentle_speed returns the loop body is never executed (the
   factor is never outside [0.5, 2.0] inside the loop), so the chain has at
   most one stage. *)
C26_LoopTerminates ==
    /\ (aligner = "loop") => <>(pc = "done")
    /\ []((aligner = "loop" /\ IsGentleSpeed(target_factor)) =>
            /\ pc = "loop" => (~LoopCondition(loop_remaining) /\ loop_filters = << >>)
            /\ Len(loop_filters) <= 1)

(* C26 witness: the function has returned after several iterations of the
   loop and a residual stage. *)
C26_LoopRanAndEnded ==
    /\ aligner = "loop" /\ pc = "done"
    /\ Len(loop_filters) >= 4
    /\ ~REq(loop_filters[Len(loop_filters)], ATEMPO_MIN)

(* C27: in align_segments_simple every placed clip fits its window: a clip
   with ratio <= 1 is placed as it is without the primitive, a clip with
   1 < ratio <= 2 goes through the primitive with the single stage
   atempo = ratio, a clip with ratio > 2 is cut without the primitive, and in
   all three cases the clip put on the track is no longer than
   target_duration_ms and ends at or before end_ms. *)
C27_OverlayClipFitsWindow ==
    aligner = "simple" =>
        \A k \in Placements :
            LET p == placed[k]
                ratio == RatioOf(p)
            IN  /\ RLe(ratio, One) =>
                      /\ p.how = "asis"
                      /\ p.body = SegmentOf(p).audio
                      /\ ~CalledFor(p)
                /\ (RLt(One, ratio) /\ RLe(ratio, ATEMPO_MAX)) =>
                      /\ p.how = "adjusted"
                      /\ \E n \in 1..Len(calls) :
                            /\ calls[n].seg = p.seg
                            /\ Len(calls[n].stages) = 1
                            /\ REq(calls[n].stages[1], ratio)
                /\ RLt(ATEMPO_MAX, ratio) =>
                      /\ p.how = "truncated"
                      /\ ~CalledFor(p)
                /\ p.body <= p.target_duration_ms
                /\ p.emitted <= p.target_duration_ms
                /\ p.offset + p.emitted <= SegmentOf(p).end

(* C27 witness: one track holding a clip compressed by a ratio between 1.15
   and 2 and a clip of more than twice its window cut to the window. *)
C27_CompressedAndTruncated ==
    /\ aligner = "simple"
    /\ \E j, k \in Placements :
          /\ placed[j].how = "adjusted"
          /\ RLt(<<115, 100>>, RatioOf(placed[j]))
          /\ placed[j].body = placed[j].target_duration_ms
          /\ placed[k].how = "truncated"
          /\ placed[k].body = placed[k].target_duration_ms
          /\ SegmentOf(placed[k]).audio > 2 * placed[k].target_duration_ms

(* C28: in align_segments_simple, an iteration in which loading the clip
   raises (the file cannot be decoded) or the tempo primitive raises (the
   call just recorded failed) leaves the master track, placed_count and
   adjusted_count as they were, and the loop goes on to the next segment. *)
C28_RaisingSegmentLeavesNoTrace ==
    [][(/\ aligner = "simple" /\ pc = "align" /\ pos <= Len(segments)
        /\ HasAudio(segments[pos])
        /\ \/ ~Readable(segments[pos])
           \/ Len(calls') > Len(calls) /\ ~calls'[Len(calls')].ok)
       => /\ combined' = combined
          /\ placed_count' = placed_count
          /\ adjusted_count' = adjusted_count
          /\ placed' = placed
          /\ pos' = pos + 1
          /\ pc' = "align"]_vars

(* C28 witness: the tempo primitive failed for the first segment and the
   second segment was placed after it: the track holds the second clip only
   and one segment is counted. *)
C28_PlacedAfterFailure ==
    /\ aligner = "simple" /\ pc = "done"
    /\ \E n \in 1..Len(calls) : calls[n].seg = 1 /\ ~calls[n].ok
    /\ Len(placed) = 1 /\ placed[1].seg = 2 /\ placed[1].emitted > 0
    /\ placed_count = 1
    /\ \A m \in 1..Len(combined) : combined[m] \subseteq {2}

Jobs == DOMAIN jobs

(* C29: jobs running concurrently use disjoint intermediate files, so the
   audio muxed into a job's video is that job's: whatever mux_video read for
   job j holds the speech synthesized for job j. *)
C29_MuxedAudioIsOwn ==
    aligner = "web" => \A j \in Jobs : tasks[j].muxed \in {NoFile, j}

(* the status changes of a job: queued -> processing -> completed | failed *)
StatusStep(old, new) ==
    \/ new = old
    \/ old = "queued" /\ new = "processing"
    \/ old = "processing" /\ new \in {"completed", "failed"}

(* C30: every job created by POST /dub begins queued with progress 0 and
   changes status only along queued -> processing -> (completed | failed),
   so completed and failed are final; its progress never decreases and stays
   within 0..9; and a job whose pipeline call has returned eventually is
   completed, one whose pipeline call has raised eventually is failed. *)
C30_JobLifecycle ==
    /\ [][/\ \A j \in Jobs' \ Jobs : jobs'[j] = QueuedJob
          /\ \A j \in Jobs :
                /\ j \in Jobs'
                /\ StatusStep(jobs[j].status, jobs'[j].status)
                /\ jobs'[j].progress >= jobs[j].progress]_vars
    /\ [](\A j \in Jobs : jobs[j].progress \in 0..9)
    /\ \A j \in JobIds :
          /\ (j \in Jobs /\ tasks[j].at = "returned") ~>
                (j \in Jobs /\ jobs[j].status = "completed")
          /\ (j \in Jobs /\ tasks[j].at = "raised") ~>
                (j \in Jobs /\ jobs[j].status = "failed")

(* C30 witness: one job has gone through every stage and is completed with
   progress 9, another one failed in a stage and is failed. *)
C30_OneCompletedOneFailed ==
    /\ aligner = "web"
    /\ \E j, k \in Jobs :
          /\ jobs[j].status = "completed" /\ jobs[j].progress = 9
          /\ tasks[j].muxed # NoFile
          /\ jobs[k].status = "failed" /\ tasks[k].at = "ended"

====
